---- MODULE Spec2Model ----
(***************************************************************************)
(* Glaser interstitial-condensation engine (condensation/core.py).         *)
(*                                                                         *)
(* The engine is a set of pure functions of (Assembly, Climate, periods).  *)
(* The state is the pair of inputs under analysis, the normative table     *)
(* Tab. 2.2 as found on disk, and the last call with its return value.     *)
(*                                                                         *)
(* Arithmetic is exact: a number is a reduced fraction <<n, d>> with d > 0.*)
(* math.exp is not expressible, so the Magnus curve is sampled (see        *)
(* _p_max_magnus_pa).  The absolute tolerances 1e-12 of glaser_profile are *)
(* smaller than every positive fraction this module can hold               *)
(* (n, d < 2^31, hence n/d >= 2^-31 > 1e-12), which is what ExceedsTol,    *)
(* WithinTol and DivFloor rely on.                                         *)
(***************************************************************************)
EXTENDS Integers, Sequences, FiniteSets, TLC

VARIABLES assembly, climate, t22, t21, _pmax_table, _thetas_table, pc, seen,
          op, arg, ret

vars == <<assembly, climate, t22, t21, _pmax_table, _thetas_table, pc, seen,
          op, arg, ret>>

\* ------------------------------------------------------------------------
\* Exact rational arithmetic
\* ------------------------------------------------------------------------
RECURSIVE GCD(_, _)
GCD(a, b) == IF b = 0 THEN a ELSE GCD(b, a % b)

Abs(x) == IF x < 0 THEN -x ELSE x

Norm(n, d) ==
  LET g == GCD(Abs(n), Abs(d))
      s == IF d < 0 THEN -1 ELSE 1
  IN  <<(s * n) \div g, Abs(d) \div g>>

Q(n, d) == Norm(n, d)

Zero == <<0, 1>>
One == <<1, 1>>

RNeg(x) == <<-x[1], x[2]>>

RAdd(x, y) ==
  LET g == GCD(x[2], y[2])
  IN  Norm(x[1] * (y[2] \div g) + y[1] * (x[2] \div g), (x[2] \div g) * y[2])

RSub(x, y) == RAdd(x, RNeg(y))

RMul(x, y) ==
  LET g1 == GCD(Abs(x[1]), y[2])
      g2 == GCD(Abs(y[1]), x[2])
  IN  <<(x[1] \div g1) * (y[1] \div g2), (x[2] \div g2) * (y[2] \div g1)>>

RInv(x) == IF x[1] < 0 THEN <<-x[2], -x[1]>> ELSE <<x[2], x[1]>>

RDiv(x, y) == RMul(x, RInv(y))

RLt(x, y) ==
  LET g == GCD(x[2], y[2])
  IN  x[1] * (y[2] \div g) < y[1] * (x[2] \div g)

RLe(x, y) == x = y \/ RLt(x, y)
RGt(x, y) == RLt(y, x)
RGe(x, y) == RLe(y, x)
RMax(x, y) == IF RLt(x, y) THEN y ELSE x
RMin(x, y) == IF RLt(y, x) THEN y ELSE x
RAbs(x) == <<Abs(x[1]), x[2]>>

\* ------------------------------------------------------------------------
\* Inputs
\* ------------------------------------------------------------------------
MaxLayers == 3

None == "None"

\* Vapor permeability of still air, 1.86e-7 kg/(m.h.Pa)
DELTA_AIR_KG_M_H_PA == <<93, 500000000>>

\* Layer(name, d, lambda_, mu, rho, xr_percent, xmax_percent)
Layer(nm, d, lam, mu, rho, xr, xmax) ==
  [name |-> nm, d |-> d, lambda_ |-> lam, mu |-> mu, rho |-> rho,
   xr_percent |-> xr, xmax_percent |-> xmax]

\* Sample layers.  Thickness is one unit of 1.86e-7 m so that the axis
\* mu*d/delta_air and the resistance d/lambda are small whole numbers.
\* "void" has mu = 0 (the dataclass accepts it): it adds no length to the
\* axis.
LayerSet ==
  { Layer("tight", <<93, 500000000>>, <<93, 500000000>>, <<3, 1>>,
          <<500000000, 93>>, <<5, 1>>, <<20, 1>>),
    Layer("insul", <<93, 500000000>>, <<31, 500000000>>, <<1, 1>>,
          <<500000000, 93>>, <<5, 1>>, <<20, 1>>),
    Layer("open", <<93, 500000000>>, <<93, 500000000>>, <<1, 1>>,
          <<500000000, 93>>, <<5, 1>>, <<20, 1>>),
    Layer("void", <<93, 500000000>>, <<93, 500000000>>, <<0, 1>>,
          <<500000000, 93>>, <<5, 1>>, <<20, 1>>) }

RECURSIVE SeqsUpTo(_, _)
SeqsUpTo(S, n) ==
  IF n = 0 THEN { <<>> }
  ELSE LET prev == SeqsUpTo(S, n - 1)
       IN  prev \cup { Append(s, x) : s \in { t \in prev : Len(t) = n - 1 }, x \in S }

\* (Rsi, Rse) pairs; the last one is a negative (invalid) surface resistance
SurfaceSet == { <<Zero, Zero>>, <<One, Zero>>, <<Zero, One>>, <<One, One>>,
                <<(<<-1, 1>>), Zero>> }

Assemblies ==
  { [layers |-> ls, Rsi |-> s[1], Rse |-> s[2]] :
      ls \in SeqsUpTo(LayerSet, MaxLayers), s \in SurfaceSet }

Climates ==
  { [theta_i |-> <<20, 1>>, phi_i |-> pi, theta_e |-> te, phi_e |-> pe] :
      pi \in { <<50, 1>>, <<100, 1>> }, te \in { <<0, 1>>, <<20, 1>> },
      pe \in { <<50, 1>>, <<100, 1>> } }

\* Tab. 2.2 as parsed by _ensure_pmax_table: (temps_sorted, mapping);
\* present is FALSE when the file is missing or unreadable.
SampleT22 == [mode |-> "value", file |-> "csv", present |-> TRUE,
              xs |-> << <<0, 1>>, <<10, 1>>, <<20, 1>> >>,
              mapping |-> << <<600, 1>>, <<1200, 1>>, <<2400, 1>> >>]

NoT22 == [mode |-> "none", file |-> "none", present |-> FALSE, xs |-> <<>>, mapping |-> <<>>]

T22Set == { NoT22, SampleT22 }

\* The other behaviours of the Tab. 2.2 lookup seen from p_max: "absent" is
\* a failed import (_HAS_TABLES False), "raises" a call that ends in an
\* exception.
AbsentT22 == [mode |-> "absent", file |-> "none", present |-> FALSE, xs |-> <<>>, mapping |-> <<>>]
RaisingT22 == [mode |-> "raises", file |-> "none", present |-> FALSE, xs |-> <<>>, mapping |-> <<>>]

\* Tab. 2.1 as parsed by _ensure_thetas_table: (thetas, phis, grid) with
\* grid[i][j] the threshold for thetas[i] and phis[j]; the same four
\* behaviours.
SampleT21 == [mode |-> "value", file |-> "csv",
              thetas |-> << <<-10, 1>>, <<10, 1>>, <<30, 1>> >>,
              phis |-> << <<40, 1>>, <<60, 1>>, <<100, 1>> >>,
              grid |-> << << <<-20, 1>>, <<-16, 1>>, <<-10, 1>> >>,
                          << <<-3, 1>>, <<3, 1>>, <<10, 1>> >>,
                          << <<15, 1>>, <<21, 1>>, <<30, 1>> >> >>]

NoT21 == [mode |-> "none", file |-> "none", thetas |-> <<>>, phis |-> <<>>, grid |-> <<>>]
AbsentT21 == [mode |-> "absent", file |-> "none", thetas |-> <<>>, phis |-> <<>>, grid |-> <<>>]
RaisingT21 == [mode |-> "raises", file |-> "none", thetas |-> <<>>, phis |-> <<>>, grid |-> <<>>]

\* The table comes from context/t2-*.csv ("csv"), from the .xlsx workbook
\* ("xlsx"), or both files are there ("both").
FileVariants(t) == { [t EXCEPT !.file = f] : f \in { "csv", "xlsx", "both" } }

\* Cache containers: None, or the table a load has stored
EmptyPmax == [some |-> FALSE, xs |-> <<>>, mapping |-> <<>>]
EmptyThetas == [some |-> FALSE, thetas |-> <<>>, phis |-> <<>>, grid |-> <<>>]

\* (Tab. 2.2, Tab. 2.1) together: one import serves both
TablePairs ==
  { <<AbsentT22, AbsentT21>>, <<RaisingT22, RaisingT21>>, <<NoT22, NoT21>>,
    <<SampleT22, SampleT21>>, <<SampleT22, NoT21>>, <<NoT22, SampleT21>> }

TkSet == { <<0, 1>>, <<2, 1>> }

\* ------------------------------------------------------------------------
\* Steady-state thermal solver
\* ------------------------------------------------------------------------
Inf == [finite |-> FALSE, val |-> Zero]
Fin(x) == [finite |-> TRUE, val |-> x]

\* sum(layer.d / layer.lambda_ for the first k layers)
RECURSIVE R_layers(_, _)
R_layers(layers, k) ==
  IF k = 0 THEN Zero
  ELSE RAdd(R_layers(layers, k - 1), RDiv(layers[k].d, layers[k].lambda_))

\* variant: the external surface resistance is left out of R_total
u_value_noRse(a) ==
  LET R_total == RAdd(a.Rsi, R_layers(a.layers, Len(a.layers)))
      U == IF RGt(R_total, Zero) THEN Fin(RDiv(One, R_total)) ELSE Inf
  IN  [U |-> U, R_total |-> R_total]

u_value(a) ==
  LET R_total == RAdd(RAdd(a.Rsi, R_layers(a.layers, Len(a.layers))), a.Rse)
      U == IF RGt(R_total, Zero) THEN Fin(RDiv(One, R_total)) ELSE Inf
  IN  [U |-> U, R_total |-> R_total]

\* variant: the external surface temperature is taken on the wrong side of
\* theta_e (theta_e - q*Rse)
temperature_profile_signSlip(a, c) ==
  LET uv == u_value(a)
      n == Len(a.layers)
  IN  IF ~uv.U.finite \/ uv.R_total = Zero
      THEN [i \in 1..(n + 2) |-> IF i <= n + 1 THEN c.theta_i ELSE c.theta_e]
      ELSE LET q == RMul(uv.U.val, RSub(c.theta_i, c.theta_e))
               theta_si == RSub(c.theta_i, RMul(q, a.Rsi))
               R_accum(k) == RAdd(a.Rsi, R_layers(a.layers, k))
               theta_se == RSub(c.theta_e, RMul(q, a.Rse))
           IN  IF n > 0
               THEN [i \in 1..(n + 1) |->
                       IF i = 1 THEN theta_si
                       ELSE IF i = n + 1 THEN theta_se
                       ELSE RSub(c.theta_i, RMul(q, R_accum(i - 1)))]
               ELSE <<theta_si, theta_se>>

temperature_profile(a, c) ==
  LET uv == u_value(a)
      n == Len(a.layers)
  IN  IF ~uv.U.finite \/ uv.R_total = Zero
      THEN [i \in 1..(n + 2) |-> IF i <= n + 1 THEN c.theta_i ELSE c.theta_e]
      ELSE LET q == RMul(uv.U.val, RSub(c.theta_i, c.theta_e))
               theta_si == RSub(c.theta_i, RMul(q, a.Rsi))
               R_accum(k) == RAdd(a.Rsi, R_layers(a.layers, k))
               theta_se == RAdd(c.theta_e, RMul(q, a.Rse))
           IN  IF n > 0
               THEN [i \in 1..(n + 1) |->
                       IF i = 1 THEN theta_si
                       ELSE IF i = n + 1 THEN theta_se
                       ELSE RSub(c.theta_i, RMul(q, R_accum(i - 1)))]
               ELSE <<theta_si, theta_se>>

\* ------------------------------------------------------------------------
\* Saturation-pressure service
\* ------------------------------------------------------------------------
NoValue == [some |-> FALSE, val |-> Zero]
Some(x) == [some |-> TRUE, val |-> x]

\* Index of the first knot i >= 2 with x <= xs[i] (the for-loops of _interp1
\* and interp); only used when xs[1] < x < xs[Len(xs)].
Bracket(x, xs) ==
  CHOOSE i \in 2..Len(xs) :
    /\ RLe(x, xs[i])
    /\ \A j \in 2..(i - 1) : ~RLe(x, xs[j])

\* tables._interp1; mapping[i] is the value stored for key xs[i]
_interp1(x, xs, mapping) ==
  IF Len(xs) = 0 THEN NoValue
  ELSE IF RLe(x, xs[1]) THEN Some(mapping[1])
  ELSE IF RGe(x, xs[Len(xs)]) THEN Some(mapping[Len(xs)])
  ELSE LET i == Bracket(x, xs)
           t == RDiv(RSub(x, xs[i - 1]), RSub(xs[i], xs[i - 1]))
       IN  Some(RAdd(mapping[i - 1], RMul(t, RSub(mapping[i], mapping[i - 1]))))

\* what a load of the Tab. 2.2 file stores; nothing when it is missing
Load22 ==
  IF t22.mode = "value"
  THEN [some |-> TRUE, xs |-> t22.xs, mapping |-> t22.mapping]
  ELSE EmptyPmax

\* variant: a table found in the cache is dropped
_ensure_pmax_table_forgetful == IF _pmax_table.some THEN EmptyPmax ELSE Load22

\* _pmax_table after _ensure_pmax_table: the table already cached, or the
\* one loaded now
_ensure_pmax_table == IF _pmax_table.some THEN _pmax_table ELSE Load22

p_max_tabulated_from(table, T) ==
  IF ~table.some THEN NoValue ELSE _interp1(T, table.xs, table.mapping)

p_max_tabulated(T) == p_max_tabulated_from(_ensure_pmax_table, T)

\* 6.112 * exp(17.625*T/(243.04+T)) * 100 sampled every 10 degC from -10 to
\* 30 degC, rounded to the hectopascal and joined by straight lines.
MagnusKnots == << <<-10, 1>>, <<0, 1>>, <<10, 1>>, <<20, 1>>, <<30, 1>> >>
MagnusPa == << <<300, 1>>, <<600, 1>>, <<1200, 1>>, <<2300, 1>>, <<4200, 1>> >>

_p_max_magnus_pa(T) == _interp1(T, MagnusKnots, MagnusPa).val

\* the table is asked only when it was imported; an exception counts as no
\* value
p_max(T) ==
  LET val == IF t22.mode \in { "absent", "raises" } THEN NoValue
             ELSE p_max_tabulated(T)
  IN  IF val.some THEN val.val ELSE _p_max_magnus_pa(T)

\* variant: an exception of the table call is not caught
p_max_outcome_unguarded(T) ==
  IF t22.mode = "raises" THEN [raised |-> TRUE, val |-> Zero]
  ELSE [raised |-> FALSE, val |-> p_max(T)]

\* a call of p_max as the caller sees it
p_max_outcome(T) == [raised |-> FALSE, val |-> p_max(T)]

\* -273.15
AbsoluteZero == <<-5463, 20>>

\* temperature at which the Magnus pressure is p (the sampled curve read
\* backwards; flat outside the knots)
magnus_inverse(p) == _interp1(p, MagnusPa, MagnusKnots).val

\* variant: only a negative humidity gives the sentinel
dew_point_negative_only(theta, phi) ==
  IF RLt(phi, Zero) THEN AbsoluteZero
  ELSE magnus_inverse(RMul(RDiv(phi, <<100, 1>>), _p_max_magnus_pa(theta)))

\* td with e_s(td) = phi/100 * e_s(theta)
dew_point(theta, phi) ==
  IF RLe(phi, Zero) THEN AbsoluteZero
  ELSE magnus_inverse(RMul(RDiv(phi, <<100, 1>>), _p_max_magnus_pa(theta)))

\* tables._interp2: bracketing indices (i0, i1), clamped at both ends
i_lo(x, xs) ==
  IF RLe(x, xs[1]) THEN 1
  ELSE IF RGe(x, xs[Len(xs)]) THEN Len(xs)
  ELSE Bracket(x, xs) - 1

i_hi(x, xs) ==
  IF RLe(x, xs[1]) THEN 1
  ELSE IF RGe(x, xs[Len(xs)]) THEN Len(xs)
  ELSE Bracket(x, xs)

\* tx = 0.0 if x1 == x0 else (x - x0) / (x1 - x0)
t_frac(x, x0, x1) == IF x1 = x0 THEN Zero ELSE RDiv(RSub(x, x0), RSub(x1, x0))

\* f0 + t * (f1 - f0)
lerp(f0, f1, t) == RAdd(f0, RMul(t, RSub(f1, f0)))

interp2_at(x, y, xs, ys, grid, i0, i1, j0, j1) ==
  IF i0 = i1 /\ j0 = j1 THEN grid[i0][j0]
  ELSE IF i0 = i1
  THEN lerp(grid[i0][j0], grid[i0][j1], t_frac(y, ys[j0], ys[j1]))
  ELSE IF j0 = j1
  THEN lerp(grid[i0][j0], grid[i1][j0], t_frac(x, xs[i0], xs[i1]))
  ELSE lerp(lerp(grid[i0][j0], grid[i1][j0], t_frac(x, xs[i0], xs[i1])),
            lerp(grid[i0][j1], grid[i1][j1], t_frac(x, xs[i0], xs[i1])),
            t_frac(y, ys[j0], ys[j1]))

_interp2(x, y, xs, ys, grid) ==
  IF Len(xs) = 0 \/ Len(ys) = 0 THEN NoValue
  ELSE Some(interp2_at(x, y, xs, ys, grid,
                       i_lo(x, xs), i_hi(x, xs), i_lo(y, ys), i_hi(y, ys)))

\* what a load of the Tab. 2.1 file stores; nothing when it is missing
Load21 ==
  IF t21.mode = "value"
  THEN [some |-> TRUE, thetas |-> t21.thetas, phis |-> t21.phis,
        grid |-> t21.grid]
  ELSE EmptyThetas

\* _thetas_table after _ensure_thetas_table
_ensure_thetas_table == IF _thetas_table.some THEN _thetas_table ELSE Load21

theta_s_tabulated_from(table, theta_i, phi_i) ==
  IF ~table.some THEN NoValue
  ELSE _interp2(theta_i, phi_i, table.thetas, table.phis, table.grid)

theta_s_tabulated(theta_i, phi_i) ==
  theta_s_tabulated_from(_ensure_thetas_table, theta_i, phi_i)

\* theta_s: the tabulated threshold when the table was imported and returns
\* a value without raising, the dew point otherwise
threshold(theta, phi) ==
  LET theta_s == IF t21.mode \in { "absent", "raises" } THEN NoValue
                 ELSE theta_s_tabulated(theta, phi)
  IN  IF theta_s.some THEN theta_s.val ELSE dew_point(theta, phi)

\* ------------------------------------------------------------------------
\* Steady-state vapor solver
\* ------------------------------------------------------------------------
\* accum after the first k layers
RECURSIVE z_accum(_, _)
z_accum(layers, k) ==
  IF k = 0 THEN Zero
  ELSE RAdd(z_accum(layers, k - 1),
            RDiv(RMul(layers[k].mu, layers[k].d), DELTA_AIR_KG_M_H_PA))

z_profile(a) == [i \in 1..(Len(a.layers) + 1) |-> z_accum(a.layers, i - 1)]

partial_pressures(c) ==
  [p_i |-> RMul(RDiv(c.phi_i, <<100, 1>>), p_max(c.theta_i)),
   p_e |-> RMul(RDiv(c.phi_e, <<100, 1>>), p_max(c.theta_e))]

\* variant: the line rises from p_i by g0*z instead of falling
vapor_pressure_profile_rising(a, c) ==
  LET z_axis == z_profile(a)
      pp == partial_pressures(c)
      z_total == z_axis[Len(z_axis)]
  IN  IF z_total = Zero
      THEN [z_axis |-> z_axis, p_line |-> [i \in 1..Len(z_axis) |-> pp.p_i]]
      ELSE LET g0 == RDiv(RSub(pp.p_i, pp.p_e), z_total)
           IN  [z_axis |-> z_axis,
                p_line |-> [i \in 1..Len(z_axis) |->
                              RAdd(pp.p_i, RMul(g0, z_axis[i]))]]

vapor_pressure_profile(a, c) ==
  LET z_axis == z_profile(a)
      pp == partial_pressures(c)
      z_total == z_axis[Len(z_axis)]
  IN  IF z_total = Zero
      THEN [z_axis |-> z_axis, p_line |-> [i \in 1..Len(z_axis) |-> pp.p_i]]
      ELSE LET g0 == RDiv(RSub(pp.p_i, pp.p_e), z_total)
           IN  [z_axis |-> z_axis,
                p_line |-> [i \in 1..Len(z_axis) |->
                              RSub(pp.p_i, RMul(g0, z_axis[i]))]]

saturation_pressure_profile(temps) == [i \in 1..Len(temps) |-> p_max(temps[i])]

\* ------------------------------------------------------------------------
\* Zone detector / Glaser reconstructor
\* ------------------------------------------------------------------------
\* x > 1e-12, for x a difference of axis coordinates
ExceedsTol(x) == RGt(x, Zero)

\* abs(x) < 1e-12
WithinTol(x) == x = Zero

\* A flux or a mass: the number v + e12 * 10^12.  The second component
\* holds what a division by the floor 1e-12 has scaled up.
Flux(v, e12) == [v |-> v, e12 |-> e12]
FZero == Flux(Zero, Zero)

\* num / max(den, 1e-12)
DivFloor(num, den) ==
  IF ExceedsTol(den) THEN Flux(RDiv(num, den), Zero) ELSE Flux(Zero, num)

FSub(x, y) == Flux(RSub(x.v, y.v), RSub(x.e12, y.e12))
FAdd(x, y) == Flux(RAdd(x.v, y.v), RAdd(x.e12, y.e12))
FScale(x, r) == Flux(RMul(x.v, r), RMul(x.e12, r))

\* x > 0: the 10^12 component decides unless it is zero (|v| < 2^31 and
\* |e12| >= 2^-31 is checked by forming v / e12)
FPositive(x) ==
  IF x.e12 # Zero
  THEN RGt(x.e12, Zero) /\ RDiv(x.v, x.e12) = RDiv(x.v, x.e12)
  ELSE RGt(x.v, Zero)

\* max(0.0, x)
FMax0(x) == IF FPositive(x) THEN x ELSE FZero

\* variant: the crossing is put at the middle of the segment
Crossing_midpoint(z0, z1, d0, d1) ==
  RAdd(z0, RMul(<<1, 2>>, RSub(z1, z0)))

\* t = 0.0 if (d1 - d0) == 0 else (-d0) / (d1 - d0); z0 + t * (z1 - z0)
Crossing(z0, z1, d0, d1) ==
  LET t == IF RSub(d1, d0) = Zero THEN Zero ELSE RDiv(RNeg(d0), RSub(d1, d0))
  IN  RAdd(z0, RMul(t, RSub(z1, z0)))

\* variant: a segment that only reaches saturation (d1 = 0) opens a zone
RECURSIVE Intervals_touchOpens(_, _, _)
Intervals_touchOpens(z_axis, diff, k) ==
  IF k = 0 THEN <<>>
  ELSE LET iv == Intervals_touchOpens(z_axis, diff, k - 1)
           z0 == z_axis[k]
           z1 == z_axis[k + 1]
           d0 == diff[k]
           d1 == diff[k + 1]
           n == Len(iv)
       IN  IF RGt(d0, Zero) /\ RGt(d1, Zero)
           THEN IF n > 0 /\ WithinTol(RAbs(RSub(iv[n][2], z0)))
                THEN [iv EXCEPT ![n] = <<iv[n][1], z1>>]
                ELSE Append(iv, <<z0, z1>>)
           ELSE IF RLe(d0, Zero) /\ RLe(Zero, d1)
           THEN Append(iv, <<Crossing(z0, z1, d0, d1), z1>>)
           ELSE IF RGt(d0, Zero) /\ RGe(Zero, d1)
           THEN LET zb == Crossing(z0, z1, d0, d1)
                IN  IF n > 0 THEN [iv EXCEPT ![n] = <<iv[n][1], zb>>]
                    ELSE Append(iv, <<z0, zb>>)
           ELSE iv

\* intervals after the loop has handled the first k segments
RECURSIVE Intervals(_, _, _)
Intervals(z_axis, diff, k) ==
  IF k = 0 THEN <<>>
  ELSE LET iv == Intervals(z_axis, diff, k - 1)
           z0 == z_axis[k]
           z1 == z_axis[k + 1]
           d0 == diff[k]
           d1 == diff[k + 1]
           n == Len(iv)
       IN  IF RGt(d0, Zero) /\ RGt(d1, Zero)
           THEN IF n > 0 /\ WithinTol(RAbs(RSub(iv[n][2], z0)))
                THEN [iv EXCEPT ![n] = <<iv[n][1], z1>>]
                ELSE Append(iv, <<z0, z1>>)
           ELSE IF RLe(d0, Zero) /\ RLt(Zero, d1)
           THEN Append(iv, <<Crossing(z0, z1, d0, d1), z1>>)
           ELSE IF RGt(d0, Zero) /\ RGe(Zero, d1)
           THEN LET zb == Crossing(z0, z1, d0, d1)
                IN  IF n > 0 THEN [iv EXCEPT ![n] = <<iv[n][1], zb>>]
                    ELSE Append(iv, <<z0, zb>>)
           ELSE iv

\* variant: intervals are never merged
RECURSIVE Merge_never(_, _)
Merge_never(intervals, k) ==
  IF k = 0 THEN <<>>
  ELSE LET swap == RGt(intervals[k][1], intervals[k][2])
           a == IF swap THEN intervals[k][2] ELSE intervals[k][1]
           b == IF swap THEN intervals[k][1] ELSE intervals[k][2]
       IN  Append(Merge_never(intervals, k - 1), <<a, b>>)

\* merged after the loop has handled the first k intervals
RECURSIVE Merge(_, _)
Merge(intervals, k) ==
  IF k = 0 THEN <<>>
  ELSE LET merged == Merge(intervals, k - 1)
           swap == RGt(intervals[k][1], intervals[k][2])
           a == IF swap THEN intervals[k][2] ELSE intervals[k][1]
           b == IF swap THEN intervals[k][1] ELSE intervals[k][2]
           m == Len(merged)
       IN  IF m = 0 THEN <<(<<a, b>>)>>
           ELSE IF ~ExceedsTol(RSub(a, merged[m][2]))
           THEN [merged EXCEPT ![m] = <<merged[m][1], RMax(merged[m][2], b)>>]
           ELSE Append(merged, <<a, b>>)

\* the nested interp(zq, zs, arr) of glaser_profile
interp(zq, zs, arr) ==
  IF RLe(zq, zs[1]) THEN arr[1]
  ELSE IF RGe(zq, zs[Len(zs)]) THEN arr[Len(arr)]
  ELSE LET i == Bracket(zq, zs)
           z0 == zs[i - 1]
           z1 == zs[i]
           t == IF RSub(z1, z0) = Zero THEN Zero
                ELSE RDiv(RSub(zq, z0), RSub(z1, z0))
       IN  RAdd(arr[i - 1], RMul(t, RSub(arr[i], arr[i - 1])))

\* zones_out: g_left before the first zone, g_mid between two zones and
\* g_right after the last one
g_left(z_axis, p_lin, p_sat, merged) ==
  DivFloor(RSub(p_lin[1], interp(merged[1][1], z_axis, p_sat)),
           RSub(merged[1][1], z_axis[1]))

g_mid(z_axis, p_sat, merged, k) ==
  DivFloor(RSub(interp(merged[k - 1][2], z_axis, p_sat),
                interp(merged[k][1], z_axis, p_sat)),
           RSub(merged[k][1], merged[k - 1][2]))

g_right(z_axis, p_lin, p_sat, merged) ==
  DivFloor(RSub(interp(merged[Len(merged)][2], z_axis, p_sat), p_lin[Len(z_axis)]),
           RSub(z_axis[Len(z_axis)], merged[Len(merged)][2]))

zones_out(z_axis, p_lin, p_sat, merged) ==
  [k \in 1..Len(merged) |->
     [start_z |-> merged[k][1],
      end_z |-> merged[k][2],
      g_before |-> IF k = 1 THEN g_left(z_axis, p_lin, p_sat, merged)
                   ELSE g_mid(z_axis, p_sat, merged, k),
      g_after |-> IF k = Len(merged) THEN g_right(z_axis, p_lin, p_sat, merged)
                  ELSE g_mid(z_axis, p_sat, merged, k + 1)]]

\* z_final before the closing append: z_axis[0], the first zone start when it
\* lies beyond the tolerance, then the start of every later zone
z_starts(z_axis, merged) ==
  <<z_axis[1]>>
    \o (IF ExceedsTol(RSub(merged[1][1], z_axis[1])) THEN <<merged[1][1]>> ELSE <<>>)
    \o [k \in 1..(Len(merged) - 1) |-> merged[k + 1][1]]

\* p_final at those coordinates: p_lin[0], then p_sat at the zone starts
p_starts(z_axis, p_lin, p_sat, z_mid) ==
  [k \in 1..Len(z_mid) |->
     IF k = 1 THEN p_lin[1] ELSE interp(z_mid[k], z_axis, p_sat)]

\* if z_final[-1] < z_total - 1e-12: append (z_total, p_e)
close_line(z_axis, p_lin, p_sat, z_mid, p_mid, zones) ==
  [z_axis |-> z_axis, p_sat |-> p_sat, p_linear |-> p_lin,
   z_final |-> IF ExceedsTol(RSub(z_axis[Len(z_axis)], z_mid[Len(z_mid)]))
               THEN Append(z_mid, z_axis[Len(z_axis)]) ELSE z_mid,
   p_final |-> IF ExceedsTol(RSub(z_axis[Len(z_axis)], z_mid[Len(z_mid)]))
               THEN Append(p_mid, p_lin[Len(z_axis)]) ELSE p_mid,
   zones |-> zones]

assemble_line(z_axis, p_lin, p_sat, merged, z_mid) ==
  close_line(z_axis, p_lin, p_sat, z_mid, p_starts(z_axis, p_lin, p_sat, z_mid),
             zones_out(z_axis, p_lin, p_sat, merged))

glaser_from_merged(z_axis, p_lin, p_sat, merged) ==
  IF Len(merged) = 0
  THEN [z_axis |-> z_axis, p_sat |-> p_sat, p_linear |-> p_lin,
        z_final |-> z_axis, p_final |-> p_lin, zones |-> <<>>]
  ELSE assemble_line(z_axis, p_lin, p_sat, merged, z_starts(z_axis, merged))

glaser_from_intervals(z_axis, p_lin, p_sat, intervals) ==
  glaser_from_merged(z_axis, p_lin, p_sat, Merge(intervals, Len(intervals)))

\* diff = [pl - ps for pl, ps in zip(p_lin, p_sat)]
glaser_from_lines(z_axis, p_lin, p_sat) ==
  glaser_from_intervals(z_axis, p_lin, p_sat,
    Intervals(z_axis, [i \in 1..Len(z_axis) |-> RSub(p_lin[i], p_sat[i])],
              Len(z_axis) - 1))

glaser_from_profile(vp, p_sat) == glaser_from_lines(vp.z_axis, vp.p_line, p_sat)

glaser_profile(a, c) ==
  glaser_from_profile(vapor_pressure_profile(a, c),
                      saturation_pressure_profile(temperature_profile(a, c)))

\* ------------------------------------------------------------------------
\* Direct zone detection
\* ------------------------------------------------------------------------
Min3(a, b, c) ==
  LET m == IF a < b THEN a ELSE b IN IF m < c THEN m ELSE c

\* z* where p_line - p_sat_line crosses zero between i0 and i1
interp_z(p_line, p_sat_line, z_axis, i0, i1) ==
  LET x0 == z_axis[i0]
      x1 == z_axis[i1]
      y0 == RSub(p_line[i0], p_sat_line[i0])
      y1 == RSub(p_line[i1], p_sat_line[i1])
  IN  IF y1 = y0 THEN x0
      ELSE RAdd(x0, RMul(RDiv(RNeg(y0), RSub(y1, y0)), RSub(x1, x0)))

\* loop state after the first k iterations (start_z is only read in_zone)
RECURSIVE cz_loop(_, _, _, _)
cz_loop(p_line, p_sat_line, z_axis, k) ==
  IF k = 0
  THEN [zones |-> <<>>, in_zone |-> FALSE, start_z |-> Zero, max_excess |-> Zero]
  ELSE LET s == cz_loop(p_line, p_sat_line, z_axis, k - 1)
           prev_excess == RSub(p_line[k], p_sat_line[k])
           excess == RSub(p_line[k + 1], p_sat_line[k + 1])
           mx == IF s.in_zone THEN RMax(s.max_excess, excess) ELSE s.max_excess
       IN  IF RLe(prev_excess, Zero) /\ RLt(Zero, excess) /\ ~s.in_zone
           THEN [zones |-> s.zones, in_zone |-> TRUE,
                 start_z |-> interp_z(p_line, p_sat_line, z_axis, k, k + 1),
                 max_excess |-> excess]
           ELSE IF RGt(prev_excess, Zero) /\ RLe(excess, Zero) /\ s.in_zone
           THEN [zones |-> Append(s.zones,
                   [start_z |-> s.start_z,
                    end_z |-> interp_z(p_line, p_sat_line, z_axis, k, k + 1),
                    max_excess_pa |-> RMax(Zero, mx)]),
                 in_zone |-> FALSE, start_z |-> Zero, max_excess |-> Zero]
           ELSE [s EXCEPT !.max_excess = mx]

condensation_zones(p_line, p_sat_line, z_axis) ==
  LET n == Min3(Len(p_line), Len(p_sat_line), Len(z_axis))
  IN  IF n = 0 THEN <<>>
      ELSE LET s == cz_loop(p_line, p_sat_line, z_axis, n - 1)
           IN  IF s.in_zone
               THEN Append(s.zones, [start_z |-> s.start_z, end_z |-> z_axis[n],
                                     max_excess_pa |-> RMax(Zero, s.max_excess)])
               ELSE s.zones

\* ------------------------------------------------------------------------
\* Condensate calculator
\* ------------------------------------------------------------------------
\* max(x, 1e-9)
Floor9(x) ==
  IF x[1] <= 0 \/ (x[1] <= 2 /\ x[2] >= x[1] * 1000000000)
  THEN <<1, 1000000000>> ELSE x

\* variant: the rate is not clamped at 0
Wk_rate_noClamp(z) ==
  LET dz_zone == RMax(Zero, RSub(z.end_z, z.start_z))
  IN  IF RLe(dz_zone, Zero) THEN FZero
      ELSE FSub(z.g_before, z.g_after)

\* Wk_rate of a zone; 0 for a zone the loop skips (dz_zone <= 0)
Wk_rate(z) ==
  LET dz_zone == RMax(Zero, RSub(z.end_z, z.start_z))
  IN  IF RLe(dz_zone, Zero) THEN FZero
      ELSE FMax0(FSub(z.g_before, z.g_after))

\* variant: every overlapping layer receives the whole mass of the zone
LayerShare_unweighted(z, z_axis, i, tk_hours) ==
  LET dz_zone == RMax(Zero, RSub(z.end_z, z.start_z))
      overlap == RMax(Zero, RSub(RMin(z_axis[i + 1], z.end_z),
                                 RMax(z_axis[i], z.start_z)))
  IN  IF RLe(dz_zone, Zero) THEN FZero
      ELSE IF RGt(overlap, Zero) /\ RGt(dz_zone, Zero)
      THEN FScale(Wk_rate(z), tk_hours)
      ELSE FZero

\* what zone z adds to per_layer_wk[i]
LayerShare(z, z_axis, i, tk_hours) ==
  LET dz_zone == RMax(Zero, RSub(z.end_z, z.start_z))
      overlap == RMax(Zero, RSub(RMin(z_axis[i + 1], z.end_z),
                                 RMax(z_axis[i], z.start_z)))
  IN  IF RLe(dz_zone, Zero) THEN FZero
      ELSE IF RGt(overlap, Zero) /\ RGt(dz_zone, Zero)
      THEN FScale(FScale(Wk_rate(z), tk_hours), RDiv(overlap, dz_zone))
      ELSE FZero

RECURSIVE Wk_sum(_, _, _)
Wk_sum(zones, k, tk_hours) ==
  IF k = 0 THEN FZero
  ELSE FAdd(Wk_sum(zones, k - 1, tk_hours), FScale(Wk_rate(zones[k]), tk_hours))

RECURSIVE per_layer_wk(_, _, _, _, _)
per_layer_wk(zones, k, z_axis, i, tk_hours) ==
  IF k = 0 THEN FZero
  ELSE FAdd(per_layer_wk(zones, k - 1, z_axis, i, tk_hours),
            LayerShare(zones[k], z_axis, i, tk_hours))

\* one row of layers_out
layer_out(layer, j, Wk_layer) ==
  [index |-> j - 1,
   Wk_layer |-> Wk_layer,
   delta_x_percent |->
     FScale(FScale(Wk_layer, RInv(RMul(Floor9(layer.d), Floor9(layer.rho)))),
            <<100, 1>>)]

condensate_from_zones(a, zones, z_axis, tk_hours) ==
  [Wk_total |-> Wk_sum(zones, Len(zones), tk_hours),
   layers |-> [j \in 1..Len(a.layers) |->
                 layer_out(a.layers[j], j,
                           per_layer_wk(zones, Len(zones), z_axis, j, tk_hours))]]

condensate_amount(a, c, tk_hours) ==
  condensate_from_zones(a, glaser_profile(a, c).zones, z_profile(a), tk_hours)

\* ------------------------------------------------------------------------
\* Drying
\* ------------------------------------------------------------------------
\* Optional[Climate]: drying_climate=None, or a climate
NoClimate ==
  [some |-> FALSE,
   val |-> [theta_i |-> Zero, phi_i |-> Zero, theta_e |-> Zero, phi_e |-> Zero]]
SomeClimate(c) == [some |-> TRUE, val |-> c]

\* variant: the default drying climate has a reverse gradient
DefaultDryingClimate_gradient ==
  [theta_i |-> <<30, 1>>, phi_i |-> <<10, 1>>,
   theta_e |-> <<0, 1>>, phi_e |-> <<90, 1>>]

\* Climate(theta_i=18.0, phi_i=65.0, theta_e=18.0, phi_e=65.0)
DefaultDryingClimate ==
  [theta_i |-> <<18, 1>>, phi_i |-> <<65, 1>>,
   theta_e |-> <<18, 1>>, phi_e |-> <<65, 1>>]

\* drying climates passed by callers: none, and a reverse gradient
DryingClimates ==
  { NoClimate,
    SomeClimate([theta_i |-> <<30, 1>>, phi_i |-> <<10, 1>>,
                 theta_e |-> <<0, 1>>, phi_e |-> <<90, 1>>]) }

\* tu_hours: 2 h and 10^12 h, as numbers v + e12 * 10^12
TuSet == { Flux(<<2, 1>>, Zero), Flux(Zero, One) }

\* (tu_hours, drying_climate) of the drying_check calls: a short period
\* under the default climate and a long one under the given climate
DryingCases ==
  { [tu_hours |-> Flux(<<2, 1>>, Zero), drying_climate |-> NoClimate],
    [tu_hours |-> Flux(Zero, One),
     drying_climate |-> CHOOSE c \in DryingClimates : c.some] }

\* s_total = z_profile(assembly)[-1] if assembly.layers else 0.0
s_total(a) == IF Len(a.layers) > 0 THEN z_profile(a)[Len(a.layers) + 1] ELSE Zero

\* variant: the pressure difference keeps its sign
drying_from_pressures_signed(a, tu_hours, pp) ==
  IF RLe(s_total(a), Zero)
  THEN [capacity_kg_m2 |-> FZero, ok |-> FALSE]
  ELSE [capacity_kg_m2 |->
          FScale(tu_hours, RDiv(RSub(pp.p_i, pp.p_e), s_total(a))),
        ok |-> FPositive(FScale(tu_hours,
                                RDiv(RSub(pp.p_i, pp.p_e), s_total(a))))]

\* g = abs(p_i - p_e) / s_total; capacity = g * tu_hours
drying_from_pressures(a, tu_hours, pp) ==
  IF RLe(s_total(a), Zero)
  THEN [capacity_kg_m2 |-> FZero, ok |-> FALSE]
  ELSE [capacity_kg_m2 |->
          FScale(tu_hours, RDiv(RAbs(RSub(pp.p_i, pp.p_e)), s_total(a))),
        ok |-> FPositive(FScale(tu_hours,
                                RDiv(RAbs(RSub(pp.p_i, pp.p_e)), s_total(a))))]

drying_capacity(a, tu_hours, drying_climate) ==
  drying_from_pressures(a, tu_hours,
    partial_pressures(IF drying_climate.some THEN drying_climate.val
                      ELSE DefaultDryingClimate))

\* x >= y for two numbers v + e12 * 10^12
FGe(x, y) == ~FPositive(FSub(y, x))

\* variant: the capacity must exceed the condensate
drying_compare_strict(capacity, wk_total) == FPositive(FSub(capacity, wk_total))

\* return capacity >= wk_total
drying_compare(capacity, wk_total) == FGe(capacity, wk_total)

\* the rest of drying_check once wk = condensate_amount(...) is known
drying_check_of(wk, a, tu_hours, drying_climate) ==
  drying_compare(drying_capacity(a, tu_hours, drying_climate).capacity_kg_m2,
                 wk.Wk_total)

drying_check(a, c, tk_hours, tu_hours, drying_climate) ==
  drying_check_of(condensate_amount(a, c, tk_hours), a, tu_hours, drying_climate)

\* ------------------------------------------------------------------------
\* Moisture limits
\* ------------------------------------------------------------------------
\* Rows as condensate_amount lays them out, with chosen contents: index 7
\* names no layer; xr_percent + 15 reaches xmax_percent of the sample layers,
\* xr_percent + 1 stays below it.
RowSet ==
  { [index |-> 0, Wk_layer |-> FZero, delta_x_percent |-> Flux(<<15, 1>>, Zero)],
    [index |-> 0, Wk_layer |-> FZero, delta_x_percent |-> Flux(<<1, 1>>, Zero)],
    [index |-> 1, Wk_layer |-> FZero, delta_x_percent |-> Flux(<<15, 1>>, Zero)],
    [index |-> 7, Wk_layer |-> FZero, delta_x_percent |-> Flux(<<1, 1>>, Zero)] }

Reverse(s) == [k \in 1..Len(s) |-> s[Len(s) + 1 - k]]

\* for row in wk_layers: if int(row["index"]) == i: dx = ...; break
RECURSIVE row_dx(_, _, _)
row_dx(wk_layers, k, i) ==
  IF k > Len(wk_layers) THEN FZero
  ELSE IF wk_layers[k].index = i THEN wk_layers[k].delta_x_percent
  ELSE row_dx(wk_layers, k + 1, i)

\* variant: x_uk <= x_max
limit_less_equal(x_uk, x_max) == FGe(Flux(x_max, Zero), x_uk)

\* x_uk < layer.xmax_percent
limit_less(x_uk, x_max) == FPositive(FSub(Flux(x_max, Zero), x_uk))

limit_row(layer, j, x_uk) ==
  [index |-> j - 1, x_uk_prime |-> x_uk, x_max |-> layer.xmax_percent,
   ok |-> limit_less(x_uk, layer.xmax_percent)]

moisture_limits_check(a, wk_layers) ==
  [j \in 1..Len(a.layers) |->
     limit_row(a.layers[j], j,
               FAdd(Flux(a.layers[j].xr_percent, Zero),
                    row_dx(wk_layers, 1, j - 1)))]

\* ------------------------------------------------------------------------
\* Surface condensation
\* ------------------------------------------------------------------------
surface_full(a, c, theta_si, theta_s, theta_se, theta_s_e) ==
  [theta_si |-> theta_si, theta_s |-> theta_s, risk |-> RLt(theta_si, theta_s),
   theta_se |-> theta_se, theta_s_e |-> theta_s_e,
   risk_e |-> RLt(theta_se, theta_s_e)]

surface_from(a, c, uv, temps) ==
  IF ~uv.U.finite \/ uv.R_total = Zero
  THEN [theta_si |-> c.theta_i, theta_s |-> dew_point(c.theta_i, c.phi_i),
        risk |-> FALSE]
  ELSE surface_full(a, c,
         RSub(c.theta_i,
              RMul(RMul(uv.U.val, RSub(c.theta_i, c.theta_e)), a.Rsi)),
         threshold(c.theta_i, c.phi_i),
         temps[Len(temps)],
         threshold(c.theta_e, c.phi_e))

surface_condensation_risk(a, c) ==
  surface_from(a, c, u_value(a), temperature_profile(a, c))

\* ------------------------------------------------------------------------
\* End-to-end analysis
\* ------------------------------------------------------------------------
RECURSIVE d_accum(_, _)
d_accum(layers, k) ==
  IF k = 0 THEN Zero ELSE RAdd(d_accum(layers, k - 1), layers[k].d)

thickness_axis(a) == [i \in 1..(Len(a.layers) + 1) |-> d_accum(a.layers, i - 1)]

\* float("nan")
NaN == [finite |-> FALSE, val |-> <<0, 0>>]

analyze_from(a, c, tu_hours, uv, temps, vp, gp, wk) ==
  [U |-> uv.U,
   R_total |-> uv.R_total,
   q |-> IF uv.U.finite
         THEN Fin(RMul(uv.U.val, RSub(c.theta_i, c.theta_e)))
         ELSE NaN,
   theta_profile |-> temps,
   thickness_axis |-> thickness_axis(a),
   vapor_axis |-> vp.z_axis,
   p_line |-> vp.p_line,
   vapor_axis_final |-> gp.z_final,
   p_final |-> gp.p_final,
   p_sat |-> saturation_pressure_profile(temps),
   zones |-> gp.zones,
   condensate_proxy |-> wk.Wk_total,
   Wk_total |-> wk.Wk_total,
   Wk_layers |-> wk.layers,
   drying_capacity |-> drying_capacity(a, tu_hours, NoClimate).capacity_kg_m2,
   drying_ok |-> drying_check_of(wk, a, tu_hours, NoClimate),
   moisture_limits |-> moisture_limits_check(a, wk.layers),
   surface |-> surface_from(a, c, uv, temps),
   p_i |-> partial_pressures(c).p_i,
   p_e |-> partial_pressures(c).p_e]

analyze_with(a, c, tk_hours, tu_hours, temps, gp) ==
  analyze_from(a, c, tu_hours, u_value(a), temps,
               vapor_pressure_profile(a, c), gp,
               condensate_from_zones(a, gp.zones, z_profile(a), tk_hours))

analyze(a, c, tk_hours, tu_hours) ==
  analyze_with(a, c, tk_hours, tu_hours, temperature_profile(a, c),
               glaser_profile(a, c))

\* def analyze(assembly, climate, tk_hours=1440.0, tu_hours=1440.0): a
\* keyword that is not a parameter ends the call with TypeError before the
\* body runs
AnalyzeKeywords == { "tk_hours", "tu_hours" }

analyze_call(a, c, kwargs) ==
  IF DOMAIN kwargs \subseteq AnalyzeKeywords
  THEN [raised |-> "none",
        result |-> analyze(a, c, kwargs.tk_hours, kwargs.tu_hours)]
  ELSE [raised |-> "TypeError"]

\* ------------------------------------------------------------------------
\* Material presets (condensation/materials.py)
\* ------------------------------------------------------------------------
\* A cell of materials.csv is a string, written as the sequence of its
\* characters; a line is the sequence of its cells.  The header is
\* name,lambda,mu,rho,xr_percent,xmax_percent.
MaxRows == 3

Chars(str) ==
  CASE str = "" -> <<>>
    [] str = " " -> <<" ">>
    [] str = "A" -> <<"A">>
    [] str = "B" -> <<"B">>
    [] str = "x" -> <<"x">>
    [] str = "5" -> <<"5">>
    [] str = "0.5" -> <<"0", ".", "5">>
    [] str = "1 000,5" -> <<"1", " ", "0", "0", "0", ",", "5">>
    [] str = " 1" -> <<" ", "1">>

Line(cells) == [k \in 1..Len(cells) |-> Chars(cells[k])]

LineSet ==
  { <<>>,
    Line(<<"", "", "", "", "", "">>),
    Line(<<"A", "0.5", "5", "1 000,5", " 1", "5">>),
    Line(<<"B", "5", "5", "5", "5", "5">>),
    Line(<<"A", "x", "5", "5", "5", "5">>),
    Line(<<" ", "5", "5", "5", "5", "5">>),
    Line(<<"A", "5", "", "5", "5", "5">>),
    Line(<<"A", "5", "5", " ", "5", "5">>),
    Line(<<"A", "5">>) }

NoFile == [exists |-> FALSE, lines |-> <<>>]
Files ==
  { NoFile } \cup { [exists |-> TRUE, lines |-> ls] : ls \in SeqsUpTo(LineSet, MaxRows) }

\* str.strip()
RECURSIVE lstrip(_)
lstrip(txt) ==
  IF Len(txt) > 0 /\ Head(txt) = " " THEN lstrip(Tail(txt)) ELSE txt

RECURSIVE rstrip(_)
rstrip(txt) ==
  IF Len(txt) > 0 /\ txt[Len(txt)] = " "
  THEN rstrip(SubSeq(txt, 1, Len(txt) - 1)) ELSE txt

strip(txt) == rstrip(lstrip(txt))

\* .replace(" ", "").replace(",", ".")
RECURSIVE unspace(_)
unspace(txt) ==
  IF Len(txt) = 0 THEN <<>>
  ELSE IF Head(txt) = " " THEN unspace(Tail(txt))
  ELSE <<IF Head(txt) = "," THEN "." ELSE Head(txt)>> \o unspace(Tail(txt))

DigitChars == { "0", "1", "5" }
DigitOf(ch) == CASE ch = "0" -> 0 [] ch = "1" -> 1 [] ch = "5" -> 5

\* the digits of txt read as one whole number, the point left out
RECURSIVE digits_value(_, _)
digits_value(txt, k) ==
  IF k = 0 THEN 0
  ELSE IF txt[k] = "." THEN digits_value(txt, k - 1)
  ELSE 10 * digits_value(txt, k - 1) + DigitOf(txt[k])

RECURSIVE pow10(_)
pow10(n) == IF n = 0 THEN 1 ELSE 10 * pow10(n - 1)

\* digits after the point
decimals(txt) ==
  IF \E k \in 1..Len(txt) : txt[k] = "."
  THEN Len(txt) - (CHOOSE k \in 1..Len(txt) : txt[k] = ".")
  ELSE 0

\* float(txt) for plain decimal text: digits with at most one point
float(txt) ==
  IF /\ \A k \in 1..Len(txt) : txt[k] \in DigitChars \cup { "." }
     /\ \E k \in 1..Len(txt) : txt[k] \in DigitChars
     /\ Cardinality({ k \in 1..Len(txt) : txt[k] = "." }) <= 1
  THEN Some(Q(digits_value(txt, Len(txt)), pow10(decimals(txt))))
  ELSE NoValue

\* csv.DictReader: lines without any field are dropped before the rows are
\* numbered; a row shorter than the header has None in the missing columns
DictReader(lines) == SelectSeq(lines, LAMBDA ln : Len(ln) > 0)

\* row.get(column) or None: an empty cell counts as no cell
CellOrNone(row, col) ==
  IF col <= Len(row) /\ Len(row[col]) > 0
  THEN [some |-> TRUE, txt |-> row[col]]
  ELSE [some |-> FALSE, txt |-> <<>>]

Raise(idx, field) == [raised |-> "ValueError", row |-> idx, field |-> field]

\* _require_float(s, field, row)
_require_float(cell, field, idx) ==
  IF ~cell.some \/ strip(cell.txt) = <<>> THEN Raise(idx, field)
  ELSE IF float(unspace(strip(cell.txt))).some
  THEN [raised |-> "none", val |-> float(unspace(strip(cell.txt))).val]
  ELSE Raise(idx, field)

FieldNames == <<"name", "lambda", "mu", "rho", "xr_percent", "xmax_percent">>

\* the five numbers of a row, each parsed or failed
row_numbers(row, idx) ==
  [col \in 2..6 |-> _require_float(CellOrNone(row, col), FieldNames[col], idx)]

\* one row: the record, or the first error in the order name, lambda, mu,
\* rho, xr_percent, xmax_percent
row_outcome(row, idx, nums) ==
  IF strip(CellOrNone(row, 1).txt) = <<>> THEN Raise(idx, "name")
  ELSE IF \E col \in 2..6 : nums[col].raised # "none"
  THEN nums[CHOOSE col \in 2..6 :
              /\ nums[col].raised # "none"
              /\ \A c \in 2..(col - 1) : nums[c].raised = "none"]
  ELSE [raised |-> "none",
        val |-> [name |-> strip(row[1]), lambda_ |-> nums[2].val,
                 mu |-> nums[3].val, rho |-> nums[4].val,
                 xr_percent |-> nums[5].val, xmax_percent |-> nums[6].val]]

\* not any(row.values())
blank_row(row) == \A col \in 1..Len(row) : Len(row[col]) = 0

\* for idx, row in enumerate(rdr, start=2)
RECURSIVE load_rows(_, _, _)
load_rows(rows, k, out) ==
  IF k > Len(rows) THEN [raised |-> "none", value |-> out]
  ELSE IF blank_row(rows[k]) THEN load_rows(rows, k + 1, out)
  ELSE IF row_outcome(rows[k], k + 1, row_numbers(rows[k], k + 1)).raised # "none"
  THEN row_outcome(rows[k], k + 1, row_numbers(rows[k], k + 1))
  ELSE load_rows(rows, k + 1,
         Append(out, row_outcome(rows[k], k + 1, row_numbers(rows[k], k + 1)).val))

load_materials(file) ==
  IF ~file.exists THEN [raised |-> "none", value |-> <<>>]
  ELSE load_rows(DictReader(file.lines), 1, <<>>)

\* ------------------------------------------------------------------------
\* State machine
\* ------------------------------------------------------------------------
\* Callers of the cache loaders; a thread is idle or inside a loader
MaxThreads == 2
Threads == 1..MaxThreads
Idle == [at |-> "idle", table |-> "none"]

\* (tk_hours, tu_hours) of the analyze calls, and the first result of each
AnalyzeArgs ==
  { [tk_hours |-> <<2, 1>>, tu_hours |-> Flux(<<2, 1>>, Zero)],
    [tk_hours |-> <<0, 1>>, tu_hours |-> Flux(Zero, One)] }
NotSeen == [a \in AnalyzeArgs |-> [some |-> FALSE]]

\* The tables have been read before (the caches hold what a load stores), no
\* loader is running and analyze has not been called.
Init ==
  /\ assembly \in Assemblies
  /\ climate \in Climates
  /\ t22 \in T22Set
  /\ t21 = NoT21
  /\ _pmax_table = Load22
  /\ _thetas_table = Load21
  /\ pc = [t \in Threads |-> Idle]
  /\ seen = NotSeen
  /\ op = "idle"
  /\ arg = None
  /\ ret = None

\* A call is made from the idle caller; Return hands control back to it.
Call(name, a, r) ==
  /\ op = "idle"
  /\ op' = name
  /\ arg' = a
  /\ ret' = r
  /\ UNCHANGED <<assembly, climate, t22, t21, _pmax_table, _thetas_table, pc, seen>>

CallUValue == Call("u_value", None, u_value(assembly))

CallTemperatureProfile ==
  Call("temperature_profile", None, temperature_profile(assembly, climate))

CallGlaserProfile ==
  Call("glaser_profile", None, glaser_profile(assembly, climate))

CallCondensateAmount ==
  \E tk_hours \in TkSet :
    Call("condensate_amount", tk_hours,
         condensate_amount(assembly, climate, tk_hours))

Return ==
  /\ op # "idle"
  /\ op' = "idle"
  /\ arg' = None
  /\ ret' = None
  /\ UNCHANGED <<assembly, climate, t22, t21, _pmax_table, _thetas_table, pc, seen>>

CallCondensationZones ==
  LET vp == vapor_pressure_profile(assembly, climate)
      p_sat == saturation_pressure_profile(temperature_profile(assembly, climate))
  IN  Call("condensation_zones", None,
           condensation_zones(vp.p_line, p_sat, vp.z_axis))

Next ==
  \/ Return
  \/ CallUValue
  \/ CallTemperatureProfile
  \/ CallGlaserProfile
  \/ CallCondensateAmount
  \/ CallCondensationZones

Spec == Init /\ [][Next]_vars

\* The checks and profiles built on the solver, called on the same inputs
CallVaporPressureProfile ==
  Call("vapor_pressure_profile", None, vapor_pressure_profile(assembly, climate))

NextChecks ==
  \/ Return
  \/ CallVaporPressureProfile

SpecChecks == Init /\ [][NextChecks]_vars

\* The zone reconstruction and the condensate built on it
NextCondensate ==
  \/ Return
  \/ CallGlaserProfile
  \/ CallCondensateAmount

SpecCondensate == Init /\ [][NextCondensate]_vars

\* Drying capacity and drying check, on walls with and without an internal
\* surface resistance
InitDrying ==
  /\ Init
  /\ assembly.Rse = Zero
  /\ assembly.Rsi \in { Zero, One }

CallDryingCapacity ==
  \E tu_hours \in TuSet, drying_climate \in DryingClimates :
    Call("drying_capacity",
         [tu_hours |-> tu_hours, drying_climate |-> drying_climate],
         drying_capacity(assembly, tu_hours, drying_climate))

CallDryingCheck ==
  \E tk_hours \in TkSet, dc \in DryingCases :
    Call("drying_check",
         [tk_hours |-> tk_hours, tu_hours |-> dc.tu_hours,
          drying_climate |-> dc.drying_climate],
         drying_check(assembly, climate, tk_hours, dc.tu_hours,
                      dc.drying_climate))

NextDrying ==
  \/ Return
  \/ CallDryingCapacity
  \/ CallDryingCheck

SpecDrying == InitDrying /\ [][NextDrying]_vars

\* moisture_limits_check receives the rows of condensate_amount (as analyze
\* passes them, or reordered) or a short list of chosen rows.
InitMoisture ==
  /\ Init
  /\ t22 = SampleT22
  /\ assembly.Rse = Zero

CallMoistureLimitsOf(wk_layers) ==
  Call("moisture_limits_check", wk_layers,
       moisture_limits_check(assembly, wk_layers))

CallMoistureLimitsCheck ==
  \/ \E wk_layers \in SeqsUpTo(RowSet, 2) : CallMoistureLimitsOf(wk_layers)
  \/ \E tk_hours \in TkSet :
       CallMoistureLimitsOf(condensate_amount(assembly, climate, tk_hours).layers)
  \/ \E tk_hours \in TkSet :
       CallMoistureLimitsOf(
         Reverse(condensate_amount(assembly, climate, tk_hours).layers))

NextMoisture ==
  \/ Return
  \/ CallMoistureLimitsCheck

SpecMoisture == InitMoisture /\ [][NextMoisture]_vars

\* surface_condensation_risk and p_max under every behaviour of the tables;
\* the summer climate (warmer outside) puts the external surface below its
\* threshold.
SummerClimates ==
  { [theta_i |-> <<0, 1>>, phi_i |-> <<50, 1>>,
     theta_e |-> <<20, 1>>, phi_e |-> <<100, 1>>] }

InitSurface ==
  /\ assembly \in Assemblies
  /\ climate \in Climates \cup SummerClimates
  /\ \E pair \in TablePairs : t22 = pair[1] /\ t21 = pair[2]
  /\ _pmax_table = Load22
  /\ _thetas_table = Load21
  /\ pc = [t \in Threads |-> Idle]
  /\ seen = NotSeen
  /\ op = "idle"
  /\ arg = None
  /\ ret = None

CallSurfaceCondensationRisk ==
  Call("surface_condensation_risk", None,
       surface_condensation_risk(assembly, climate))

CallPMax ==
  \E T \in { climate.theta_i, climate.theta_e, <<5, 1>> } :
    Call("p_max", T, p_max_outcome(T))

NextSurface ==
  \/ Return
  \/ CallSurfaceCondensationRisk
  \/ CallPMax

SpecSurface == InitSurface /\ [][NextSurface]_vars

\* dew_point on both sides of climates that include a humidity of zero and
\* below
DewClimates ==
  { [theta_i |-> ti, phi_i |-> pi, theta_e |-> te, phi_e |-> pe] :
      ti \in { <<-20, 1>>, <<0, 1>>, <<20, 1>>, <<40, 1>> },
      pi \in { <<-10, 1>>, <<0, 1>>, <<1, 2>>, <<50, 1>>, <<100, 1>> },
      te \in { <<0, 1>>, <<20, 1>> },
      pe \in { <<0, 1>>, <<50, 1>> } }

InitDewPoint ==
  /\ assembly = [layers |-> <<>>, Rsi |-> Zero, Rse |-> Zero]
  /\ climate \in DewClimates
  /\ t22 \in T22Set
  /\ t21 = NoT21
  /\ _pmax_table = Load22
  /\ _thetas_table = Load21
  /\ pc = [t \in Threads |-> Idle]
  /\ seen = NotSeen
  /\ op = "idle"
  /\ arg = None
  /\ ret = None

CallDewPoint ==
  \E a \in { [theta |-> climate.theta_i, phi |-> climate.phi_i],
              [theta |-> climate.theta_e, phi |-> climate.phi_e] } :
    Call("dew_point", a, dew_point(a.theta, a.phi))

NextDewPoint ==
  \/ Return
  \/ CallDewPoint

SpecDewPoint == InitDewPoint /\ [][NextDewPoint]_vars

\* analyze, called repeatedly on one assembly and climate; the caches start
\* empty or filled.
CacheStarts ==
  { [t22 |-> NoT22, t21 |-> NoT21, pmax |-> FALSE, thetas |-> FALSE],
    [t22 |-> SampleT22, t21 |-> NoT21, pmax |-> FALSE, thetas |-> FALSE],
    [t22 |-> SampleT22, t21 |-> NoT21, pmax |-> TRUE, thetas |-> FALSE],
    [t22 |-> SampleT22, t21 |-> SampleT21, pmax |-> FALSE, thetas |-> FALSE],
    [t22 |-> SampleT22, t21 |-> SampleT21, pmax |-> TRUE, thetas |-> TRUE] }

AnalyzeClimates ==
  { c \in Climates : c.phi_i = <<100, 1>> /\ c.phi_e = <<50, 1>> }

InitAnalyze ==
  /\ assembly \in Assemblies
  /\ assembly.Rse = Zero
  /\ assembly.Rsi \in { Zero, One }
  /\ \A i \in 1..Len(assembly.layers) : assembly.layers[i].name # "void"
  /\ climate \in AnalyzeClimates
  /\ \E start \in CacheStarts :
       /\ t22 = start.t22
       /\ t21 = start.t21
       /\ _pmax_table = IF start.pmax THEN Load22 ELSE EmptyPmax
       /\ _thetas_table = IF start.thetas THEN Load21 ELSE EmptyThetas
  /\ pc = [t \in Threads |-> Idle]
  /\ seen = NotSeen
  /\ op = "idle"
  /\ arg = None
  /\ ret = None

\* the first result of analyze for these arguments, whether the Tab. 2.2
\* cache was empty when it was computed, and whether the call was repeated
FirstSeen(kwargs, r) ==
  IF ~seen[kwargs].some
  THEN [seen EXCEPT ![kwargs] =
          [some |-> TRUE, val |-> r, cold |-> ~_pmax_table.some,
           again |-> FALSE]]
  ELSE [seen EXCEPT ![kwargs].again = TRUE]

\* p_max is reached through partial_pressures in every call, the threshold
\* table only when U is finite
CallAnalyze ==
  \E kwargs \in AnalyzeArgs :
    /\ op = "idle"
    /\ op' = "analyze"
    /\ arg' = kwargs
    /\ ret' = analyze_call(assembly, climate, kwargs)
    /\ _pmax_table' = _ensure_pmax_table
    /\ _thetas_table' = IF u_value(assembly).U.finite
                        THEN _ensure_thetas_table ELSE _thetas_table
    /\ seen' = FirstSeen(kwargs, ret')
    /\ UNCHANGED <<assembly, climate, t22, t21, pc>>

CallAnalyzeVerbose ==
  \E kwargs \in AnalyzeArgs :
    Call("analyze",
         [tk_hours |-> kwargs.tk_hours, tu_hours |-> kwargs.tu_hours,
          verbose |-> TRUE],
         analyze_call(assembly, climate,
                      [tk_hours |-> kwargs.tk_hours,
                       tu_hours |-> kwargs.tu_hours, verbose |-> TRUE]))

NextAnalyze ==
  \/ Return
  \/ CallAnalyze
  \/ CallAnalyzeVerbose

SpecAnalyze == InitAnalyze /\ [][NextAnalyze]_vars

\* Threads calling _ensure_pmax_table and _ensure_thetas_table with empty
\* caches.  A read of a file that is there either succeeds or raises (an I/O
\* error of that one read); the files themselves do not change.
InitRace ==
  /\ assembly = [layers |-> <<>>, Rsi |-> Zero, Rse |-> Zero]
  /\ climate = [theta_i |-> <<20, 1>>, phi_i |-> <<50, 1>>,
                theta_e |-> <<0, 1>>, phi_e |-> <<50, 1>>]
  /\ t22 \in { NoT22 } \cup FileVariants(SampleT22)
  /\ t21 \in { NoT21 } \cup FileVariants(SampleT21)
  /\ _pmax_table = EmptyPmax
  /\ _thetas_table = EmptyThetas
  /\ pc = [t \in Threads |-> Idle]
  /\ seen = NotSeen
  /\ op = "idle"
  /\ arg = None
  /\ ret = None

TableNames == { "pmax", "thetas" }
FileOf(k) == IF k = "pmax" THEN t22.file ELSE t21.file
CacheOf(k) == IF k = "pmax" THEN _pmax_table ELSE _thetas_table
LoadOf(k) == IF k = "pmax" THEN Load22 ELSE Load21
EmptyOf(k) == IF k = "pmax" THEN EmptyPmax ELSE EmptyThetas

\* thread t moves to the given place of the loader of table k
Goto(t, at, k) == pc' = [pc EXCEPT ![t] = [at |-> at, table |-> k]]

\* global _pmax_table; _pmax_table = v   (or _thetas_table)
Store(k, v) ==
  /\ _pmax_table' = IF k = "pmax" THEN v ELSE _pmax_table
  /\ _thetas_table' = IF k = "thetas" THEN v ELSE _thetas_table

\* if _pmax_table is not None: return True
EnsureEnter(t) ==
  \E k \in TableNames :
    /\ pc[t].at = "idle"
    /\ Goto(t, IF CacheOf(k).some THEN "true" ELSE "csv", k)
    /\ UNCHANGED <<assembly, climate, t22, t21, _pmax_table, _thetas_table,
                   seen, op, arg, ret>>

\* if CSV.exists(): try: ...; _pmax_table = (temps_sorted, mapping); return True
CsvLoad(t) ==
  /\ pc[t].at = "csv"
  /\ FileOf(pc[t].table) \in { "csv", "both" }
  /\ Store(pc[t].table, LoadOf(pc[t].table))
  /\ Goto(t, "true", pc[t].table)
  /\ UNCHANGED <<assembly, climate, t22, t21, seen, op, arg, ret>>

\* no CSV file, or: except Exception: pass
CsvSkip(t) ==
  /\ pc[t].at = "csv"
  /\ Goto(t, "xlsx", pc[t].table)
  /\ UNCHANGED <<assembly, climate, t22, t21, _pmax_table, _thetas_table,
                 seen, op, arg, ret>>

\* if not XLSX.exists(): return False
XlsxMissing(t) ==
  /\ pc[t].at = "xlsx"
  /\ FileOf(pc[t].table) \notin { "xlsx", "both" }
  /\ Goto(t, "false", pc[t].table)
  /\ UNCHANGED <<assembly, climate, t22, t21, _pmax_table, _thetas_table,
                 seen, op, arg, ret>>

\* try: ...; _pmax_table = (temps_sorted, mapping); return True
XlsxLoad(t) ==
  /\ pc[t].at = "xlsx"
  /\ FileOf(pc[t].table) \in { "xlsx", "both" }
  /\ Store(pc[t].table, LoadOf(pc[t].table))
  /\ Goto(t, "true", pc[t].table)
  /\ UNCHANGED <<assembly, climate, t22, t21, seen, op, arg, ret>>

\* except Exception: _pmax_table = None; return False
XlsxRaise(t) ==
  /\ pc[t].at = "xlsx"
  /\ FileOf(pc[t].table) \in { "xlsx", "both" }
  /\ Store(pc[t].table, EmptyOf(pc[t].table))
  /\ Goto(t, "false", pc[t].table)
  /\ UNCHANGED <<assembly, climate, t22, t21, seen, op, arg, ret>>

EnsureReturn(t) ==
  /\ pc[t].at \in { "true", "false" }
  /\ pc' = [pc EXCEPT ![t] = Idle]
  /\ UNCHANGED <<assembly, climate, t22, t21, _pmax_table, _thetas_table,
                 seen, op, arg, ret>>

NextRace ==
  \/ \E t \in Threads : EnsureEnter(t)
  \/ \E t \in Threads : CsvLoad(t)
  \/ \E t \in Threads : CsvSkip(t)
  \/ \E t \in Threads : XlsxMissing(t)
  \/ \E t \in Threads : XlsxLoad(t)
  \/ \E t \in Threads : XlsxRaise(t)
  \/ \E t \in Threads : EnsureReturn(t)

SpecRace == InitRace /\ [][NextRace]_vars

\* load_materials on every sample file; the loader reads materials.csv only,
\* so the engine's inputs are held at one value
InitMaterials ==
  /\ InitRace
  /\ t22 = NoT22
  /\ t21 = NoT21

CallLoadMaterials ==
  \E file \in Files : Call("load_materials", file, load_materials(file))

NextMaterials ==
  \/ Return
  \/ CallLoadMaterials

SpecMaterials == InitMaterials /\ [][NextMaterials]_vars

\* analyze with every condensation period and every drying period
CallAnalyzeDrying ==
  \E tk_hours \in TkSet, tu_hours \in TuSet :
    /\ op = "idle"
    /\ op' = "analyze"
    /\ arg' = [tk_hours |-> tk_hours, tu_hours |-> tu_hours]
    /\ ret' = analyze_call(assembly, climate, arg')
    /\ _pmax_table' = _ensure_pmax_table
    /\ _thetas_table' = IF u_value(assembly).U.finite
                        THEN _ensure_thetas_table ELSE _thetas_table
    /\ UNCHANGED <<assembly, climate, t22, t21, pc, seen>>

NextAnalyzeDrying ==
  \/ Return
  \/ CallAnalyzeDrying

\* walls without an external surface resistance and without a layer of no
\* vapour resistance, the tables read before
InitAnalyzeDrying ==
  /\ Init
  /\ assembly.Rse = Zero
  /\ \A i \in 1..Len(assembly.layers) : assembly.layers[i].name # "void"

SpecAnalyzeDrying == InitAnalyzeDrying /\ [][NextAnalyzeDrying]_vars

\* ------------------------------------------------------------------------
\* Properties
\* ------------------------------------------------------------------------
RECURSIVE RSum(_)
RSum(seq) == IF Len(seq) = 0 THEN Zero ELSE RAdd(seq[1], RSum(Tail(seq)))

NLayers == Len(assembly.layers)

\* Rsi + sum(d_i / lambda_i) + Rse of the assembly under analysis
TotalResistance ==
  RAdd(RAdd(assembly.Rsi,
            RSum([i \in 1..NLayers |->
                    RDiv(assembly.layers[i].d, assembly.layers[i].lambda_)])),
       assembly.Rse)

\* the two lines glaser_profile compares, on the vapour-resistance axis
LineP == vapor_pressure_profile(assembly, climate).p_line
LineSat == saturation_pressure_profile(temperature_profile(assembly, climate))
Axis == z_profile(assembly)

\* C10: u_value returns R_total = Rsi + sum(d_i/lambda_i) + Rse, with
\* U = 1/R_total when R_total > 0 and U = +infinity when R_total <= 0.
C10_UValue ==
  op = "u_value" =>
    /\ ret.R_total = TotalResistance
    /\ RGt(TotalResistance, Zero) =>
         ret.U.finite /\ RMul(ret.U.val, TotalResistance) = One
    /\ RLe(TotalResistance, Zero) => ~ret.U.finite

C10_Witness == op = "u_value" /\ RLt(ret.R_total, Zero) /\ ~ret.U.finite

C8_Pre ==
  /\ RGe(assembly.Rsi, Zero)
  /\ RGe(assembly.Rse, Zero)
  /\ NLayers >= 1

\* C8: with Rsi >= 0, Rse >= 0 and at least one layer, the first temperature
\* lies between min(theta_i, theta_e) and max(theta_i, theta_e), and the last
\* one (theta_e + q*Rse) equals theta_i - q*(Rsi + sum(d_i/lambda_i)).
C8_SurfaceTemperatures ==
  (op = "temperature_profile" /\ C8_Pre) =>
    LET q == RDiv(RSub(climate.theta_i, climate.theta_e), TotalResistance)
        forward == RSub(climate.theta_i,
                        RMul(q, RSub(TotalResistance, assembly.Rse)))
    IN  /\ RLe(RMin(climate.theta_i, climate.theta_e), ret[1])
        /\ RLe(ret[1], RMax(climate.theta_i, climate.theta_e))
        /\ ret[Len(ret)] = forward

C8_Witness ==
  /\ op = "temperature_profile"
  /\ C8_Pre
  /\ RGt(assembly.Rsi, Zero)
  /\ RGt(assembly.Rse, Zero)
  /\ climate.theta_i # climate.theta_e
  /\ ret[Len(ret)] # climate.theta_e

\* C7: temperature_profile returns exactly len(layers)+1 temperatures, one
\* per coordinate of the vapour-resistance axis, for every assembly
\* (zero layers and zero total resistance included).
C7_ProfileLength ==
  op = "temperature_profile" =>
    /\ Len(ret) = NLayers + 1
    /\ Len(ret) = Len(Axis)

\* C9: when U is non-finite, temperature_profile returns theta_i for every
\* entry of the profile.
C9_DegenerateProfile ==
  (op = "temperature_profile" /\ RLe(TotalResistance, Zero)) =>
    \A i \in 1..Len(ret) : ret[i] = climate.theta_i

NoExcess ==
  LET p_line == LineP
      p_sat == LineSat
  IN  \A i \in 1..Len(Axis) : RLe(p_line[i], p_sat[i])

\* C6: when the vapour-pressure line is at or below saturation at every
\* interface, glaser_profile and condensation_zones return no zone and
\* condensate_amount returns Wk_total = 0 and Wk_layer = 0 for every layer.
C6_NoExcessNoZones ==
  (op \in {"glaser_profile", "condensation_zones", "condensate_amount"}
     /\ NoExcess) =>
    /\ op = "glaser_profile" => Len(ret.zones) = 0
    /\ op = "condensation_zones" => Len(ret) = 0
    /\ op = "condensate_amount" =>
         /\ ret.Wk_total = FZero
         /\ \A j \in 1..Len(ret.layers) : ret.layers[j].Wk_layer = FZero

C6_Witness ==
  /\ op = "condensate_amount"
  /\ arg = <<2, 1>>
  /\ NLayers >= 2
  /\ \A i \in 1..Len(Axis) : LineP[i] = LineSat[i]
  /\ ret.Wk_total = FZero

\* C3: the zones of glaser_profile satisfy start_z <= end_z, are sorted by
\* start_z, and each starts strictly after the previous one ends.
C3_ZonesDisjointSorted ==
  op = "glaser_profile" =>
    \A k \in 1..Len(ret.zones) :
      /\ RLe(ret.zones[k].start_z, ret.zones[k].end_z)
      /\ k > 1 => /\ RGt(ret.zones[k].start_z, ret.zones[k - 1].end_z)
                  /\ RGt(ret.zones[k].start_z, ret.zones[k - 1].start_z)

C3_Witness ==
  /\ op = "glaser_profile"
  /\ Len(ret.zones) = 2

\* sum of f[k] over the k of the finite set S
RECURSIVE FSetSum(_, _)
FSetSum(S, f) ==
  IF S = {} THEN FZero
  ELSE LET k == CHOOSE x \in S : TRUE
       IN  FAdd(f[k], FSetSum(S \ {k}, f))

\* value at zq of the polyline through (zs[i], ps[i]), zs strictly increasing,
\* held constant outside [zs[1], zs[Len(zs)]]
LineAt(zq, zs, ps) ==
  IF RLe(zq, zs[1]) THEN ps[1]
  ELSE IF RGe(zq, zs[Len(zs)]) THEN ps[Len(zs)]
  ELSE LET i == CHOOSE j \in 2..Len(zs) : RLt(zs[j - 1], zq) /\ RLe(zq, zs[j])
       IN  RAdd(ps[i - 1],
                RMul(RDiv(RSub(zq, zs[i - 1]), RSub(zs[i], zs[i - 1])),
                     RSub(ps[i], ps[i - 1])))

\* saturation curve on the axis
SatAt(zq) == LineAt(zq, Axis, [i \in 1..Len(Axis) |-> LineSat[i]])

ZoneMass(z, tk) == FScale(FMax0(FSub(z.g_before, z.g_after)), tk)

ZoneOverlap(i, z) ==
  RMax(Zero, RSub(RMin(Axis[i + 1], z.end_z), RMax(Axis[i], z.start_z)))

ZoneLength(z) == RSub(z.end_z, z.start_z)

\* zone z's mass times overlap(layer i, zone) / (end_z - start_z)
ZoneShare(i, z, tk) ==
  FScale(ZoneMass(z, tk), RDiv(ZoneOverlap(i, z), ZoneLength(z)))

\* delta_x_percent = Wk_layer / (max(d, 1e-9) * max(rho, 1e-9)) * 100
DeltaXPercent(layer, Wk_layer) ==
  FScale(Wk_layer,
         RDiv(<<100, 1>>,
              RMul(RMax(layer.d, <<1, 1000000000>>),
                   Floor9(layer.rho))))

\* C4 (as stated): Wk_total is the sum over ALL zones of
\* max(0, g_before - g_after)*tk; Wk_layer of layer i is the sum over the
\* zones of the zone's mass times overlap([z_i, z_i+1], zone) /
\* (end_z - start_z), taken wherever that quotient is defined;
\* delta_x_percent is Wk_layer / (max(d, 1e-9) * max(rho, 1e-9)) * 100.
C4_AllZones ==
  op = "condensate_amount" =>
    LET zones == glaser_profile(assembly, climate).zones
        all == 1..Len(zones)
        extended == { k \in all : ZoneLength(zones[k]) # Zero }
    IN  /\ ret.Wk_total = FSetSum(all, [k \in all |-> ZoneMass(zones[k], arg)])
        /\ Len(ret.layers) = NLayers
        /\ \A i \in 1..NLayers :
             /\ ret.layers[i].Wk_layer =
                  FSetSum(extended, [k \in extended |-> ZoneShare(i, zones[k], arg)])
             /\ ret.layers[i].delta_x_percent =
                  DeltaXPercent(assembly.layers[i], ret.layers[i].Wk_layer)

\* C4 (amended): Wk_total is the sum of max(0, g_before - g_after)*tk over
\* the zones with end_z > start_z (a zone of zero length adds nothing);
\* Wk_layer of layer i is the sum over those zones of the zone's mass times
\* overlap([z_i, z_i+1], zone) / (end_z - start_z); delta_x_percent is
\* Wk_layer / (max(d, 1e-9) * max(rho, 1e-9)) * 100.
C4_CondensateAmount ==
  op = "condensate_amount" =>
    LET zones == glaser_profile(assembly, climate).zones
        all == 1..Len(zones)
        extended == { k \in all : RGt(ZoneLength(zones[k]), Zero) }
    IN  /\ ret.Wk_total =
             FSetSum(extended, [k \in extended |-> ZoneMass(zones[k], arg)])
        /\ Len(ret.layers) = NLayers
        /\ \A i \in 1..NLayers :
             /\ ret.layers[i].Wk_layer =
                  FSetSum(extended, [k \in extended |-> ZoneShare(i, zones[k], arg)])
             /\ ret.layers[i].delta_x_percent =
                  DeltaXPercent(assembly.layers[i], ret.layers[i].Wk_layer)

C4_Witness ==
  /\ op = "condensate_amount"
  /\ arg = <<2, 1>>
  /\ FPositive(ret.Wk_total)
  /\ \E i, j \in 1..NLayers :
       /\ i # j
       /\ FPositive(ret.layers[i].Wk_layer)
       /\ FPositive(ret.layers[j].Wk_layer)
       /\ ret.layers[i].Wk_layer # ret.layers[j].Wk_layer
  /\ \E i \in 1..NLayers : ret.layers[i].Wk_layer = FZero

InSomeZone(zq, zones) ==
  \E k \in 1..Len(zones) : RLe(zones[k].start_z, zq) /\ RLe(zq, zones[k].end_z)

\* C1: with at least one layer, the reconstructed line (p_final over z_final)
\* equals the saturation curve at every axis coordinate inside a zone, both
\* zone boundaries included, and equals p_linear at every coordinate outside
\* all zones.
C1_ReconstructedLine ==
  (op = "glaser_profile" /\ NLayers >= 1) =>
    LET final(zq) == LineAt(zq, ret.z_final, ret.p_final)
    IN  /\ \A i \in 1..Len(ret.z_axis) :
             IF InSomeZone(ret.z_axis[i], ret.zones)
             THEN final(ret.z_axis[i]) = ret.p_sat[i]
             ELSE final(ret.z_axis[i]) = ret.p_linear[i]
        /\ \A k \in 1..Len(ret.zones) :
             /\ final(ret.zones[k].start_z) = SatAt(ret.zones[k].start_z)
             /\ final(ret.zones[k].end_z) = SatAt(ret.zones[k].end_z)

\* C2: g_before of a zone is the slope of the non-condensing stretch that
\* ends at the zone's start and g_after the slope of the stretch that begins
\* at its end; for a zone touching an axis endpoint the boundary flux is
\* still a finite flux of the order of the other stretches (never a
\* quotient by a zero-length stretch).
C2_ZoneFluxes ==
  op = "glaser_profile" =>
    LET zones == ret.zones
        K == Len(zones)
        N == Len(ret.z_axis)
    IN  \A k \in 1..K :
          LET zp == IF k = 1 THEN ret.z_axis[1] ELSE zones[k - 1].end_z
              pp == IF k = 1 THEN ret.p_linear[1] ELSE SatAt(zones[k - 1].end_z)
              zn == IF k = K THEN ret.z_axis[N] ELSE zones[k + 1].start_z
              pn == IF k = K THEN ret.p_linear[N] ELSE SatAt(zones[k + 1].start_z)
          IN  /\ RLt(zp, zones[k].start_z) =>
                   zones[k].g_before.v =
                     RDiv(RSub(pp, SatAt(zones[k].start_z)),
                          RSub(zones[k].start_z, zp))
              /\ RLt(zones[k].end_z, zn) =>
                   zones[k].g_after.v =
                     RDiv(RSub(SatAt(zones[k].end_z), pn),
                          RSub(zn, zones[k].end_z))
              /\ zones[k].g_before.e12 = Zero
              /\ zones[k].g_after.e12 = Zero

C5_Pre ==
  /\ NLayers = 2
  /\ \A i \in 1..2 : RGt(assembly.layers[i].mu, Zero)
  /\ RGe(assembly.Rsi, Zero)
  /\ RGe(assembly.Rse, Zero)
  /\ RGt(RMul(assembly.layers[1].mu, assembly.layers[1].d),
         RMul(assembly.layers[2].mu, assembly.layers[2].d))
  /\ RGt(climate.phi_i, climate.phi_e)
  /\ \E i \in 1..Len(Axis) : RGt(LineP[i], LineSat[i])

\* C5: for a two-layer wall whose inner layer has the higher vapour
\* resistance, under high indoor and low outdoor humidity with the vapour
\* line above saturation somewhere and tk > 0, Wk_total > 0 and more than
\* half of it is attributed to the second layer.
C5_CondensateInOuterLayer ==
  (op = "condensate_amount" /\ C5_Pre /\ RGt(arg, Zero)) =>
    /\ FPositive(ret.Wk_total)
    /\ FPositive(FSub(FScale(ret.layers[2].Wk_layer, <<2, 1>>), ret.Wk_total))

\* C11: vapor_pressure_profile returns one pressure per axis coordinate; with
\* a positive total vapour resistance the pressures are the linear
\* interpolation from p_i = (phi_i/100)*p_sat(theta_i) at coordinate 0 to
\* p_e = (phi_e/100)*p_sat(theta_e) at the last coordinate; with a total
\* vapour resistance of 0 every entry equals p_i.
C11_VaporPressureLine ==
  op = "vapor_pressure_profile" =>
    LET z == Axis
        z_total == z[Len(z)]
        p_i == RDiv(RMul(climate.phi_i, p_max(climate.theta_i)), <<100, 1>>)
        p_e == RDiv(RMul(climate.phi_e, p_max(climate.theta_e)), <<100, 1>>)
    IN  /\ ret.z_axis = z
        /\ Len(ret.p_line) = Len(z)
        /\ RGt(z_total, Zero) =>
             \A k \in 1..Len(z) :
               ret.p_line[k] =
                 RAdd(p_i, RMul(RDiv(z[k], z_total), RSub(p_e, p_i)))
        /\ z_total = Zero => \A k \in 1..Len(z) : ret.p_line[k] = p_i

C11_Witness ==
  /\ op = "vapor_pressure_profile"
  /\ Len(ret.p_line) = 4
  /\ RGt(ret.p_line[1], ret.p_line[2])
  /\ RGt(ret.p_line[2], ret.p_line[3])
  /\ ret.p_line[3] = ret.p_line[4]

\* C12: drying_capacity returns capacity = |p_i - p_e| / z_total * tu_hours
\* for the partial pressures of the drying climate (18 degC / 65 % on both
\* sides when none is given), and capacity 0 when the assembly has no layers
\* or z_total <= 0.
C12_DryingCapacity ==
  op = "drying_capacity" =>
    LET dc == IF arg.drying_climate.some THEN arg.drying_climate.val
              ELSE [theta_i |-> <<18, 1>>, phi_i |-> <<65, 1>>,
                    theta_e |-> <<18, 1>>, phi_e |-> <<65, 1>>]
        p_i == RDiv(RMul(dc.phi_i, p_max(dc.theta_i)), <<100, 1>>)
        p_e == RDiv(RMul(dc.phi_e, p_max(dc.theta_e)), <<100, 1>>)
        z_total == Axis[Len(Axis)]
    IN  IF NLayers = 0 \/ RLe(z_total, Zero)
        THEN ret.capacity_kg_m2 = FZero
        ELSE ret.capacity_kg_m2 =
               FScale(arg.tu_hours, RDiv(RAbs(RSub(p_i, p_e)), z_total))

C12_Witness ==
  /\ op = "drying_capacity"
  /\ arg.drying_climate.some
  /\ RGt(Axis[Len(Axis)], Zero)
  /\ FPositive(ret.capacity_kg_m2)
  /\ RLt(partial_pressures(arg.drying_climate.val).p_i,
         partial_pressures(arg.drying_climate.val).p_e)

\* |p_i - p_e| / z_total * tu_hours under the drying climate, 0 without
\* vapour resistance
DryingCapacityOf(tu_hours, drying_climate) ==
  LET dc == IF drying_climate.some THEN drying_climate.val
            ELSE [theta_i |-> <<18, 1>>, phi_i |-> <<65, 1>>,
                  theta_e |-> <<18, 1>>, phi_e |-> <<65, 1>>]
      p_i == RDiv(RMul(dc.phi_i, p_max(dc.theta_i)), <<100, 1>>)
      p_e == RDiv(RMul(dc.phi_e, p_max(dc.theta_e)), <<100, 1>>)
      z_total == Axis[Len(Axis)]
  IN  IF NLayers = 0 \/ RLe(z_total, Zero) THEN FZero
      ELSE FScale(tu_hours, RDiv(RAbs(RSub(p_i, p_e)), z_total))

\* Wk_total of the assembly under the condensation climate over tk_hours
WkTotalOf(tk_hours) ==
  LET zones == glaser_profile(assembly, climate).zones
      extended == { k \in 1..Len(zones) : RGt(ZoneLength(zones[k]), Zero) }
  IN  FSetSum(extended, [k \in extended |-> ZoneMass(zones[k], tk_hours)])

FirstRow(wk_layers, i) ==
  LET hits == { k \in 1..Len(wk_layers) : wk_layers[k].index = i }
  IN  IF hits = {} THEN 0 ELSE CHOOSE k \in hits : \A h \in hits : k <= h

\* C14: moisture_limits_check returns one entry per layer, in layer order;
\* x_uk_prime of layer i is xr_percent + delta_x_percent of the row whose
\* index is i (0 when there is none), and ok is True exactly when
\* x_uk_prime < xmax_percent (x_uk_prime = xmax_percent fails).
C14_MoistureLimits ==
  op = "moisture_limits_check" =>
    /\ Len(ret) = NLayers
    /\ \A j \in 1..NLayers :
         LET layer == assembly.layers[j]
             k == FirstRow(arg, j - 1)
             dx == IF k = 0 THEN FZero ELSE arg[k].delta_x_percent
             x == FAdd(Flux(layer.xr_percent, Zero), dx)
             x_max == Flux(layer.xmax_percent, Zero)
         IN  /\ ret[j].index = j - 1
             /\ ret[j].x_uk_prime = x
             /\ ret[j].ok = (x # x_max /\ ~FPositive(FSub(x, x_max)))

C14_Witness ==
  /\ op = "moisture_limits_check"
  /\ NLayers >= 2
  /\ \E j \in 1..NLayers :
       /\ ret[j].x_uk_prime = Flux(assembly.layers[j].xmax_percent, Zero)
       /\ ret[j].ok = FALSE
  /\ \E j \in 1..NLayers : ret[j].ok = TRUE

\* the threshold temperature at (theta, phi): Tab. 2.1 when it gives a
\* value, the dew point otherwise
ThresholdAt(theta, phi) ==
  IF t21.mode = "value"
  THEN _interp2(theta, phi, t21.thetas, t21.phis, t21.grid).val
  ELSE dew_point(theta, phi)

\* C15: surface_condensation_risk reports risk exactly when
\* theta_si = theta_i - q*Rsi is below the threshold at (theta_i, phi_i) and
\* risk_e exactly when the last entry of temperature_profile is below the
\* threshold at (theta_e, phi_e); with a non-finite U it reports no risk for
\* the internal and for the external surface.
C15_SurfaceRisk ==
  op = "surface_condensation_risk" =>
    LET uv == u_value(assembly)
        temps == temperature_profile(assembly, climate)
    IN  IF uv.U.finite
        THEN LET q == RMul(uv.U.val, RSub(climate.theta_i, climate.theta_e))
                 theta_si == RSub(climate.theta_i, RMul(q, assembly.Rsi))
             IN  /\ ret.risk = RLt(theta_si, ThresholdAt(climate.theta_i,
                                                          climate.phi_i))
                 /\ "risk_e" \in DOMAIN ret
                 /\ ret.risk_e = RLt(temps[Len(temps)],
                                     ThresholdAt(climate.theta_e, climate.phi_e))
        ELSE /\ ret.risk = FALSE
             /\ "risk_e" \in DOMAIN ret
             /\ ret.risk_e = FALSE

\* C16: p_max never raises because of the table: it returns the table's
\* value when the table returns one and the Magnus value otherwise;
\* surface_condensation_risk uses the tabulated threshold when the table
\* returns a value and the dew point otherwise.
C16_TableFailuresSwallowed ==
  /\ op = "p_max" =>
       /\ ~ret.raised
       /\ ret.val = IF t22.mode = "value" /\ Len(t22.xs) > 0
                    THEN _interp1(arg, t22.xs, t22.mapping).val
                    ELSE _p_max_magnus_pa(arg)
  /\ (op = "surface_condensation_risk" /\ u_value(assembly).U.finite) =>
       /\ ret.theta_s = ThresholdAt(climate.theta_i, climate.phi_i)
       /\ ret.theta_s_e = ThresholdAt(climate.theta_e, climate.phi_e)

C16_Witness ==
  /\ op = "p_max"
  /\ t22.mode = "raises"
  /\ ret = [raised |-> FALSE, val |-> _p_max_magnus_pa(arg)]
  /\ arg = <<5, 1>>

\* C17: dew_point(theta, phi) with phi <= 0 returns -273.15 for every theta.
C17_DewPointSentinel ==
  (op = "dew_point" /\ RLe(arg.phi, Zero)) => ret = <<-5463, 20>>

C17_Witness ==
  /\ op = "dew_point"
  /\ arg.phi = Zero
  /\ arg.theta = <<40, 1>>
  /\ ret = <<-5463, 20>>

\* C18: two calls of analyze with identical arguments, in any order relative
\* to other analyze calls and whether the cache was empty or filled before
\* the first, return identical results, and analyze leaves the assembly and
\* the climate unchanged.
C18_AnalyzeIdempotent ==
  /\ []((op = "analyze" /\ ret.raised = "none") => ret = seen[arg].val)
  /\ [][assembly' = assembly /\ climate' = climate]_vars

C18_Witness ==
  /\ op = "analyze"
  /\ ret.raised = "none"
  /\ \A a \in AnalyzeArgs : seen[a].some /\ seen[a].again
  /\ seen[arg].cold
  /\ _pmax_table.some
  /\ FPositive(ret.result.Wk_total)

\* C19: the caches are write-once: after a load has stored a table, no later
\* and no concurrently running call of _ensure_pmax_table or
\* _ensure_thetas_table replaces it with different content or resets it to
\* empty.
C19_WriteOnce ==
  [][/\ _pmax_table.some => _pmax_table' = _pmax_table
     /\ _thetas_table.some => _thetas_table' = _thetas_table]_vars

\* C20: analyze accepts verbose=True and then returns a result with a
\* 'proof' entry, a sequence of steps of which at least one mentions R_total
\* or 'U ='.
C20_VerboseProof ==
  (op = "analyze" /\ "verbose" \in DOMAIN arg) =>
    /\ ret.raised = "none"
    /\ "proof" \in DOMAIN ret.result
    /\ \E k \in 1..Len(ret.result.proof) :
         ret.result.proof[k] \in { "R_total", "U =" }

\* a line of the file is blank when it has no cell with text
BlankLine(ln) == \A col \in 1..Len(ln) : Len(ln[col]) = 0

\* a data row is well-formed when it has a name and five parseable numbers
WellFormed(ln) ==
  /\ Len(ln) = 6
  /\ strip(ln[1]) # <<>>
  /\ \A col \in 2..6 : float(unspace(strip(ln[col]))).some

DataRows(lines) == { k \in 1..Len(lines) : ~BlankLine(lines[k]) }

RecordOf(ln) ==
  [name |-> strip(ln[1]),
   lambda_ |-> float(unspace(strip(ln[2]))).val,
   mu |-> float(unspace(strip(ln[3]))).val,
   rho |-> float(unspace(strip(ln[4]))).val,
   xr_percent |-> float(unspace(strip(ln[5]))).val,
   xmax_percent |-> float(unspace(strip(ln[6]))).val]

\* C21: load_materials returns one record per non-blank data row, in file
\* order, when every row is well-formed; if a row has a missing name or a
\* missing or unparseable number it raises ValueError naming that row's
\* number (header = row 1; line k below the header is row k + 1); a missing
\* file gives an empty list.
C21_LoadMaterials ==
  op = "load_materials" =>
    IF ~arg.exists THEN ret = [raised |-> "none", value |-> <<>>]
    ELSE IF \A k \in DataRows(arg.lines) : WellFormed(arg.lines[k])
    THEN /\ ret.raised = "none"
         /\ Len(ret.value) = Cardinality(DataRows(arg.lines))
         /\ \A j \in 1..Len(ret.value) :
              \E k \in DataRows(arg.lines) :
                /\ Cardinality({ h \in DataRows(arg.lines) : h <= k }) = j
                /\ ret.value[j] = RecordOf(arg.lines[k])
    ELSE /\ ret.raised = "ValueError"
         /\ ret.row - 1 \in DataRows(arg.lines)
         /\ ~WellFormed(arg.lines[ret.row - 1])

ZoneSpans(zones) == [k \in 1..Len(zones) |-> <<zones[k].start_z, zones[k].end_z>>]

\* C22: condensation_zones covers every axis coordinate at which p_line
\* exceeds p_sat_line with a returned zone (start_z <= z_axis[i] <= end_z),
\* also when the excess holds at the first or the last coordinate, and its
\* intervals are the intervals of the zones glaser_profile reports.
C22_ZonesDetected ==
  op = "condensation_zones" =>
    /\ \A i \in 1..Min3(Len(LineP), Len(LineSat), Len(Axis)) :
         RGt(LineP[i], LineSat[i]) =>
           \E k \in 1..Len(ret) :
             RLe(ret[k].start_z, Axis[i]) /\ RLe(Axis[i], ret[k].end_z)
    /\ ZoneSpans(ret) = ZoneSpans(glaser_profile(assembly, climate).zones)

\* C23: for an assembly with at least one layer the Wk_layer of all layers
\* returned by condensate_amount add up to Wk_total, every zone lies inside
\* [z_axis[0], z_total], and Wk_total and every Wk_layer are >= 0.
C23_MassConservation ==
  (op = "condensate_amount" /\ NLayers >= 1) =>
    /\ FSetSum(1..NLayers, [i \in 1..NLayers |-> ret.layers[i].Wk_layer])
         = ret.Wk_total
    /\ FGe(ret.Wk_total, FZero)
    /\ \A i \in 1..NLayers : FGe(ret.layers[i].Wk_layer, FZero)
    /\ LET zones == glaser_profile(assembly, climate).zones
       IN  \A k \in 1..Len(zones) :
             /\ RLe(Axis[1], zones[k].start_z)
             /\ RLe(zones[k].start_z, zones[k].end_z)
             /\ RLe(zones[k].end_z, Axis[Len(Axis)])

C23_Witness ==
  /\ op = "condensate_amount"
  /\ NLayers >= 2
  /\ FPositive(ret.Wk_total)
  /\ \E i \in 1..(NLayers - 1) :
       /\ FPositive(ret.layers[i].Wk_layer)
       /\ FPositive(ret.layers[i + 1].Wk_layer)

\* the vapour-resistance axis is strictly increasing
AxisIncreasing ==
  /\ NLayers >= 1
  /\ \A i \in 1..NLayers : RLt(Axis[i], Axis[i + 1])

\* ... and the straight line is strictly below saturation at both boundary
\* surfaces
C24_Pre ==
  /\ AxisIncreasing
  /\ RLt(LineP[1], LineSat[1])
  /\ RLt(LineP[Len(Axis)], LineSat[Len(Axis)])

\* (p_i - p_e) / z_total
LineFlux == Flux(RDiv(RSub(LineP[1], LineP[Len(Axis)]), Axis[Len(Axis)]), Zero)

TouchesEndpoint(z) == z.start_z = Axis[1] \/ z.end_z = Axis[Len(Axis)]

\* C24: when the axis is strictly increasing and the straight line is below
\* saturation at both surfaces, every zone of glaser_profile has
\* g_before = g_after = (p_i - p_e)/z_total and condensate_amount returns
\* Wk_total = 0, however far the line exceeds saturation inside; on a strictly
\* increasing axis a positive Wk_total is returned only when some zone
\* touches an endpoint of the axis.
C24_InteriorZonesNoMass ==
  /\ (op = "glaser_profile" /\ C24_Pre) =>
        \A k \in 1..Len(ret.zones) :
          ret.zones[k].g_before = LineFlux /\ ret.zones[k].g_after = LineFlux
  /\ (op = "condensate_amount" /\ C24_Pre) => ret.Wk_total = FZero
  /\ (op = "condensate_amount" /\ AxisIncreasing /\ FPositive(ret.Wk_total)) =>
        LET zones == glaser_profile(assembly, climate).zones
        IN  \E k \in 1..Len(zones) : TouchesEndpoint(zones[k])

C24_Witness ==
  /\ op = "glaser_profile"
  /\ C24_Pre
  /\ Len(ret.zones) >= 1
  /\ \E i \in 2..NLayers : RGt(LineP[i], LineSat[i])
  /\ RGt(LineP[1], LineP[Len(Axis)])

====
